---- MODULE Spec2Model ----
(***************************************************************************)
(* slurm-sys/src/wrapper.h as the C front end processes it, one step per   *)
(* directive or declaration: the two vendor includes, the anonymous enum   *)
(* holding SLURMRS_NO_VAL, the #ifdef NO_VAL64 block with the second       *)
(* anonymous enum, and the two extern allocator declarations.              *)
(*                                                                         *)
(* Integer values are 64-bit magnitudes written as four 16-bit limbs,      *)
(* least significant first, so that 0xFFFFFFFF and 0xFFFFFFFFFFFFFFFF are  *)
(* exact.  <<>> stands for "macro not defined".                            *)
(***************************************************************************)
EXTENDS Naturals, Sequences, FiniteSets

VARIABLES pc, macros, enums, decls

vars == <<pc, macros, enums, decls>>

\* Sentinels are taken from the top of their range: all-ones minus 0..MaxSentinelOffset.
MaxSentinelOffset == 3

LimbBase == 2 ^ 16

NumLimbs == 64 \div 16

Undefined == <<>>

\* The all-ones value of a `width`-bit unsigned type, minus k, for k below LimbBase.
SentinelOfWidth(width, k) ==
    [i \in 1..NumLimbs |->
        IF i = 1 THEN (LimbBase - 1) - k
        ELSE IF i <= width \div 16 THEN LimbBase - 1
        ELSE 0]

\* The values the vendor's 32-bit "no value" macro can have.
Sentinels32 == { SentinelOfWidth(32, k) : k \in 0..MaxSentinelOffset }

\* The values the vendor's 64-bit "no value" macro can have, when it is defined.
Sentinels64 == { SentinelOfWidth(64, k) : k \in 0..MaxSentinelOffset }

\* The macro tables <slurm/slurm.h> can leave behind: NO_VAL always, NO_VAL64
\* only on installations that have it.
VendorHeaders ==
    [NO_VAL : Sentinels32, NO_VAL64 : Sentinels64 \cup {Undefined}]

NoMacros == [NO_VAL |-> Undefined, NO_VAL64 |-> Undefined]

\* Whether a value is representable in 32 bits.
FitsIn32(v) == \A i \in (32 \div 16 + 1)..NumLimbs : v[i] = 0

\* The storage the compiler gives an enumeration, hence each of its
\* enumerators: 32 bits when every member fits, otherwise 64 bits for all.
EnumWidth(group) ==
    IF \A i \in 1..Len(group) : FitsIn32(group[i].value) THEN 32 ELSE 64

\* `SLURMRS_NO_VAL = NO_VAL`: the initializer is the expansion of NO_VAL.
NoValInitializer(m) == m.NO_VAL

NoVal64InitializerWrongMacro(m) == m.NO_VAL

\* `SLURMRS_NO_VAL64 = NO_VAL64`: the initializer is the expansion of NO_VAL64.
NoVal64Initializer(m) == m.NO_VAL64

\* `enum { SLURMRS_NO_VAL = NO_VAL, };` opens an enumeration of its own.
EnumNoVal(es, m) ==
    Append(es, << [name |-> "SLURMRS_NO_VAL", value |-> NoValInitializer(m)] >>)

EnumNoVal64SameGroup(es, m) ==
    [es EXCEPT ![Len(es)] =
        Append(@, [name |-> "SLURMRS_NO_VAL64", value |-> NoVal64Initializer(m)])]

\* `enum { SLURMRS_NO_VAL64 = NO_VAL64, };` opens a second enumeration.
EnumNoVal64(es, m) ==
    Append(es, << [name |-> "SLURMRS_NO_VAL64", value |-> NoVal64Initializer(m)] >>)

IfdefMisspelled(m) == FALSE

\* `#ifdef NO_VAL64`
IfdefNoVal64(m) == m.NO_VAL64 # Undefined

TryXmallocDecl ==
    [name    |-> "slurm_try_xmalloc",
     linkage |-> "extern",
     returns |-> "void *",
     params  |-> <<"size_t", "const char *", "int", "const char *">>]

XfreeDecl ==
    [name    |-> "slurm_xfree",
     linkage |-> "extern",
     returns |-> "void",
     params  |-> <<"void **", "const char *", "int", "const char *">>]

\* What a consumer of the compiled header sees of the enumerators: each
\* constant with its value and the width of the enumeration it belongs to.
Exported(es) ==
    UNION { { [name  |-> es[g][i].name,
               value |-> es[g][i].value,
               width |-> EnumWidth(es[g])] : i \in 1..Len(es[g]) } :
            g \in 1..Len(es) }

IsExported(es, n) == \E c \in Exported(es) : c.name = n

ExportedAs(es, n) == { c \in Exported(es) : c.name = n }

Init ==
    /\ pc = "include_slurm"
    /\ macros = NoMacros
    /\ enums = <<>>
    /\ decls = {}

\* #include <slurm/slurm.h>
IncludeSlurm ==
    /\ pc = "include_slurm"
    /\ \E h \in VendorHeaders : macros' = h
    /\ pc' = "include_slurmdb"
    /\ UNCHANGED <<enums, decls>>

\* #include <slurm/slurmdb.h>
IncludeSlurmdb ==
    /\ pc = "include_slurmdb"
    /\ pc' = "enum_no_val"
    /\ UNCHANGED <<macros, enums, decls>>

\* enum { SLURMRS_NO_VAL = NO_VAL, };
DeclareNoVal ==
    /\ pc = "enum_no_val"
    /\ enums' = EnumNoVal(enums, macros)
    /\ pc' = "ifdef_no_val64"
    /\ UNCHANGED <<macros, decls>>

\* #ifdef NO_VAL64
TestNoVal64 ==
    /\ pc = "ifdef_no_val64"
    /\ \/ /\ IfdefNoVal64(macros)
          /\ pc' = "enum_no_val64"
       \/ /\ ~IfdefNoVal64(macros)
          /\ pc' = "endif"
    /\ UNCHANGED <<macros, enums, decls>>

\* enum { SLURMRS_NO_VAL64 = NO_VAL64, };
DeclareNoVal64 ==
    /\ pc = "enum_no_val64"
    /\ enums' = EnumNoVal64(enums, macros)
    /\ pc' = "endif"
    /\ UNCHANGED <<macros, decls>>

\* #endif
Endif ==
    /\ pc = "endif"
    /\ pc' = "decl_try_xmalloc"
    /\ UNCHANGED <<macros, enums, decls>>

\* extern void *slurm_try_xmalloc(size_t, const char *, int, const char *);
DeclareTryXmalloc ==
    /\ pc = "decl_try_xmalloc"
    /\ decls' = decls \cup {TryXmallocDecl}
    /\ pc' = "decl_xfree"
    /\ UNCHANGED <<macros, enums>>

\* extern void slurm_xfree(void **, const char *, int, const char *);
DeclareXfree ==
    /\ pc = "decl_xfree"
    /\ decls' = decls \cup {XfreeDecl}
    /\ pc' = "done"
    /\ UNCHANGED <<macros, enums>>

Next ==
    \/ IncludeSlurm
    \/ IncludeSlurmdb
    \/ DeclareNoVal
    \/ TestNoVal64
    \/ DeclareNoVal64
    \/ Endif
    \/ DeclareTryXmalloc
    \/ DeclareXfree

Spec == Init /\ [][Next]_vars

TypeOK ==
    /\ pc \in {"include_slurm", "include_slurmdb", "enum_no_val", "ifdef_no_val64",
               "enum_no_val64", "endif", "decl_try_xmalloc", "decl_xfree", "done"}
    /\ macros \in VendorHeaders \cup {NoMacros}
    /\ Len(enums) <= 2
    /\ decls \subseteq {TryXmallocDecl, XfreeDecl}

(***************************************************************************)
(* Reading a value in decimal, most significant digit first: repeated      *)
(* division of the limbs by ten.                                           *)
(***************************************************************************)
RECURSIVE CarryInto(_, _)
CarryInto(v, i) ==
    IF i > NumLimbs THEN 0 ELSE (CarryInto(v, i + 1) * LimbBase + v[i]) % 10

DivTen(v) ==
    [i \in 1..NumLimbs |-> (CarryInto(v, i + 1) * LimbBase + v[i]) \div 10]

ModTen(v) == CarryInto(v, 1)

IsZero(v) == \A i \in 1..NumLimbs : v[i] = 0

RECURSIVE Decimal(_)
Decimal(v) ==
    IF IsZero(DivTen(v)) THEN <<ModTen(v)>>
    ELSE Append(Decimal(DivTen(v)), ModTen(v))

AfterNoVal ==
    pc \in {"ifdef_no_val64", "enum_no_val64", "endif", "decl_try_xmalloc",
            "decl_xfree", "done"}

\* C1 (value fidelity): every exported constant carries exactly the value of
\* the vendor macro it is initialised from -- SLURMRS_NO_VAL that of NO_VAL,
\* SLURMRS_NO_VAL64 that of NO_VAL64 -- and once the header is compiled the
\* constant of every defined macro is there to be read.
ValueFidelity ==
    /\ \A c \in Exported(enums) :
          /\ c.name = "SLURMRS_NO_VAL" => c.value = macros.NO_VAL
          /\ c.name = "SLURMRS_NO_VAL64" =>
                macros.NO_VAL64 # Undefined /\ c.value = macros.NO_VAL64
    /\ pc = "done" =>
          /\ \E c \in Exported(enums) :
                c.name = "SLURMRS_NO_VAL" /\ c.value = macros.NO_VAL
          /\ macros.NO_VAL64 # Undefined =>
                \E c \in Exported(enums) :
                    c.name = "SLURMRS_NO_VAL64" /\ c.value = macros.NO_VAL64

\* The header compiled against vendor values 0xFFFFFFFF and
\* 0xFFFFFFFFFFFFFFFF: the constants read 4294967295 and 18446744073709551615.
ValueFidelityWitness ==
    /\ pc = "done"
    /\ macros.NO_VAL = SentinelOfWidth(32, 0)
    /\ macros.NO_VAL64 = SentinelOfWidth(64, 0)
    /\ \E c \in Exported(enums) :
          /\ c.name = "SLURMRS_NO_VAL"
          /\ Decimal(c.value) = <<4, 2, 9, 4, 9, 6, 7, 2, 9, 5>>
    /\ \E c \in Exported(enums) :
          /\ c.name = "SLURMRS_NO_VAL64"
          /\ Decimal(c.value) =
                <<1, 8, 4, 4, 6, 7, 4, 4, 0, 7, 3, 7, 0, 9, 5, 5, 1, 6, 1, 5>>

\* C2 (width fidelity): SLURMRS_NO_VAL is stored in exactly 32 bits, whether
\* or not SLURMRS_NO_VAL64 has been declared, and SLURMRS_NO_VAL64, when
\* declared, in exactly 64 bits.
WidthFidelity ==
    /\ \A c \in Exported(enums) :
          /\ c.name = "SLURMRS_NO_VAL" => c.width = 32
          /\ c.name = "SLURMRS_NO_VAL64" => c.width = 64
    /\ AfterNoVal => IsExported(enums, "SLURMRS_NO_VAL")

\* Both constants declared, one 32 bits wide and the other 64.
WidthFidelityWitness ==
    /\ IsExported(enums, "SLURMRS_NO_VAL64")
    /\ \E c \in ExportedAs(enums, "SLURMRS_NO_VAL") : c.width = 32
    /\ \E c \in ExportedAs(enums, "SLURMRS_NO_VAL64") : c.width = 64

\* C3 (conditional presence): SLURMRS_NO_VAL is exported by every compilation,
\* with the value of NO_VAL and 32 bits wide; SLURMRS_NO_VAL64 is exported by
\* the compiled header if and only if the vendor headers define NO_VAL64, and
\* is never exported with a made-up value while the macro is undefined.
ConditionalPresence ==
    /\ AfterNoVal =>
          ExportedAs(enums, "SLURMRS_NO_VAL") =
             { [name |-> "SLURMRS_NO_VAL", value |-> macros.NO_VAL, width |-> 32] }
    /\ IsExported(enums, "SLURMRS_NO_VAL64") => macros.NO_VAL64 # Undefined
    /\ pc \in {"endif", "decl_try_xmalloc", "decl_xfree", "done"} =>
          (IsExported(enums, "SLURMRS_NO_VAL64") <=> macros.NO_VAL64 # Undefined)

\* A vendor installation without NO_VAL64: the header is compiled, the 64-bit
\* constant is absent and the 32-bit one is there.
ConditionalPresenceWitness ==
    /\ pc = "done"
    /\ macros.NO_VAL64 = Undefined
    /\ ~IsExported(enums, "SLURMRS_NO_VAL64")
    /\ IsExported(enums, "SLURMRS_NO_VAL")

\* C9 (separate constant groups): every enumeration of the header holds exactly
\* one constant, no constant is in two enumerations, and so no enumeration
\* holds a member that needs 64 bits beside one that fits 32.
SeparateGroups ==
    /\ \A g \in 1..Len(enums) : Len(enums[g]) = 1
    /\ \A g, h \in 1..Len(enums) :
          g # h => \A i \in 1..Len(enums[g]), j \in 1..Len(enums[h]) :
                      enums[g][i].name # enums[h][j].name
    /\ \A g \in 1..Len(enums) :
          \A i, j \in 1..Len(enums[g]) :
              FitsIn32(enums[g][i].value) <=> FitsIn32(enums[g][j].value)

\* Both enumerations declared: two groups, of different widths.
SeparateGroupsWitness ==
    /\ Len(enums) = 2
    /\ EnumWidth(enums[1]) # EnumWidth(enums[2])
    /\ enums[1][1].name = "SLURMRS_NO_VAL"
    /\ enums[2][1].name = "SLURMRS_NO_VAL64"

====
